---- MODULE Spec2Model ----
(***************************************************************************)
(* balancebeam (proj-2): the shared ProxyState behind one tokio RwLock,    *)
(* the per-connection handlers (connect_to_upstream, handle_connection,    *)
(* rate_limiting_check), the active health checker and the rate-limit      *)
(* counter resetter.                                                       *)
(*                                                                         *)
(* A step of the model is the code a task runs between two await points.   *)
(* Every write guard of the program is taken and dropped without an await  *)
(* in between, so a write section is one step; read guards are held across *)
(* TcpStream::connect (handlers) and across the whole probe (checker), so  *)
(* they are state (readers).  tokio's RwLock is fair: waiters are served   *)
(* in FIFO order, and a waiting writer keeps later readers waiting.        *)
(***************************************************************************)
EXTENDS Integers, Sequences, FiniteSets, TLC

\* ---------------------------------------------------------------- bounds
NumUpstreams == 2
NumHandlers == 2
NumClientIps == 2
MaxLimit == 1
UsizeBits == 3

\* ------------------------------------------------------ program constants
HTTP_OK == 200
BAD_REQUEST == 400
PAYLOAD_TOO_LARGE == 413
TOO_MANY_REQUESTS == 429
BAD_GATEWAY == 502
SERVICE_UNAVAILABLE == 503

Upstreams == 1..NumUpstreams
Handlers == 1..NumHandlers
HcTask == NumHandlers + 1
RcTask == NumHandlers + 2
Tasks == 1..(NumHandlers + 2)
ClientIps == 1..NumClientIps

\* Client IPs are interchangeable: connection h comes from one of the first h.
ClientIpsOf(h) == {ip \in ClientIps : ip <= h}

\* The clients stop sending once an IP has this many requests in a window.
MaxCount == MaxLimit + 2

UsizeModulus == 2 ^ UsizeBits
UsizeMax == UsizeModulus - 1

\* What an upstream server does: "ok" accepts connections and answers,
\* "refuse" refuses connections, "hang" neither completes nor fails what is
\* asked of it (no await on an upstream socket has a timeout).
UpstreamStates == {"ok", "refuse", "hang"}

\* The results of request::read_from_stream on the client socket.
RequestResults ==
    {"Ok", "IncompleteRequest0", "IncompleteRequestN", "MalformedRequest",
     "InvalidContentLength", "ContentLengthMismatch", "RequestBodyTooLarge",
     "ConnectionError"}

VARIABLES
    upstream_address_flags,      \* ProxyState.upstream_address_flags
    upstream_address_alive_num,  \* ProxyState.upstream_address_alive_num (usize)
    rate_limiting_counter,       \* ProxyState.rate_limiting_counter (HashMap)
    max_requests_per_minute,     \* ProxyState.max_requests_per_minute
    readers,                     \* tasks holding a read guard of the RwLock
    waitq,                       \* tasks waiting for the RwLock, FIFO
    pc,                          \* where each task is
    upstream_idx,                \* handler: the index it picked, then the upstream of
                                 \* its upstream_conn; checker: the for loop's index
    client_ip,                   \* handler: client_ip
    sent,                        \* the last response written to a client socket:
                                 \* <<handler, status>>
    upstream,                    \* environment: what each upstream server does
    window_reqs,                 \* history: requests counted per IP since the last clear
    probed                       \* history: what the checker's current cycle found for
                                 \* each upstream: "dead" (refused or non-200), "alive"
                                 \* (200 on a flag that was false), else "none"

vars ==
    <<upstream_address_flags, upstream_address_alive_num, rate_limiting_counter,
      max_requests_per_minute, readers, waitq, pc, upstream_idx, client_ip, sent,
      upstream, window_reqs, probed>>

pool == <<upstream_address_flags, upstream_address_alive_num>>
lock == <<readers, waitq>>
limiter == <<rate_limiting_counter, window_reqs>>

\* ------------------------------------------------------------- the RwLock
\* state.read().await returns: the task is first in line (no write guard
\* is ever held between two steps).
ReadGranted(t) == waitq /= <<>> /\ Head(waitq) = t

\* state.write().await returns: first in line and no read guard is out.
WriteGranted(t) == waitq /= <<>> /\ Head(waitq) = t /\ readers = {}

\* ------------------------------------------------------- usize arithmetic
\* `x -= 1` on a usize: at 0 a debug build panics and a release build wraps.
SubOne(x) ==
    IF x = 0 THEN {<<"panic", x>>, <<"wrap", UsizeMax>>} ELSE {<<"ok", x - 1>>}

\* `x += 1` on a usize.
AddOne(x) ==
    IF x = UsizeMax THEN {<<"panic", x>>, <<"wrap", 0>>} ELSE {<<"ok", x + 1>>}

AliveFlags == {i \in Upstreams : upstream_address_flags[i]}

\* ------------------------------------------------------------------- Init
\* main: every upstream flagged alive, alive_num = N, no counters; the two
\* background tasks are spawned and no connection is accepted yet.
Init ==
    /\ upstream_address_flags = [i \in Upstreams |-> TRUE]
    /\ upstream_address_alive_num = NumUpstreams
    /\ rate_limiting_counter = [a \in {} |-> 0]
    /\ max_requests_per_minute \in 0..MaxLimit
    /\ readers = {}
    /\ waitq = <<>>
    /\ pc = [t \in Tasks |->
                IF t = HcTask THEN "hc_start"
                ELSE IF t = RcTask THEN "rc_tick0" ELSE "idle"]
    /\ upstream_idx = [t \in Tasks |-> 0]
    /\ client_ip = [h \in Handlers |-> 0]
    /\ sent = <<0, 0>>
    /\ upstream \in [Upstreams -> UpstreamStates]
    /\ window_reqs = [a \in ClientIps |-> 0]
    /\ probed = [i \in Upstreams |-> "none"]

\* ------------------------------------------------------------ environment
\* An upstream server starts or stops accepting connections.
UpstreamChange(i, s) ==
    /\ upstream[i] /= s
    /\ upstream' = [upstream EXCEPT ![i] = s]
    /\ UNCHANGED <<pool, limiter, max_requests_per_minute, lock, pc, upstream_idx,
                   client_ip, sent, probed>>

\* connect_to_upstream is at the top of its loop, waiting for the read lock:
\* "cu_read" before any connection attempt, "cu_retry" after a failed one.
AtLoopTop(h) == pc[h] \in {"cu_read", "cu_retry"}

\* handle_connection returns (or its task panics): its locals are gone.
Return(h, label) ==
    /\ pc' = [pc EXCEPT ![h] = label]
    /\ upstream_idx' = [upstream_idx EXCEPT ![h] = 0]
    /\ client_ip' = [client_ip EXCEPT ![h] = 0]

\* ----------------------------------------------------- connect_to_upstream
\* main: listener.accept() spawns handle_connection, which calls
\* connect_to_upstream and waits for the read lock.
Accept(h, ip) ==
    /\ pc[h] = "idle"
    /\ client_ip' = [client_ip EXCEPT ![h] = ip]
    /\ waitq' = Append(waitq, h)
    /\ pc' = [pc EXCEPT ![h] = "cu_read"]
    /\ UNCHANGED <<pool, limiter, max_requests_per_minute, readers, upstream_idx,
                   sent, upstream, probed>>

\* Mutant of CuExhausted: after the 502 the handler enters its request loop.
CuExhausted_StaysOpen(h) ==
    /\ AtLoopTop(h)
    /\ ReadGranted(h)
    /\ upstream_address_alive_num = 0
    /\ waitq' = Tail(waitq)
    /\ sent' = <<h, BAD_GATEWAY>>
    /\ pc' = [pc EXCEPT ![h] = "await_req"]
    /\ UNCHANGED <<pool, limiter, max_requests_per_minute, readers, upstream_idx,
                   client_ip, upstream, probed>>

\* The read guard is granted and alive_num is 0: connect_to_upstream returns
\* Err, handle_connection sends 502 and returns.
CuExhausted(h) ==
    /\ AtLoopTop(h)
    /\ ReadGranted(h)
    /\ upstream_address_alive_num = 0
    /\ waitq' = Tail(waitq)
    /\ sent' = <<h, BAD_GATEWAY>>
    /\ Return(h, "done")
    /\ UNCHANGED <<pool, limiter, max_requests_per_minute, readers, upstream, probed>>

\* The random draw hits an index whose flag is false: `continue` drops the
\* guard and the loop asks for the read lock again.
CuDeadHit(h, i) ==
    /\ AtLoopTop(h)
    /\ ReadGranted(h)
    /\ upstream_address_alive_num /= 0
    /\ ~upstream_address_flags[i]
    /\ waitq' = Append(Tail(waitq), h)
    /\ UNCHANGED <<pool, limiter, max_requests_per_minute, readers, pc, upstream_idx,
                   client_ip, sent, upstream, probed>>

\* Mutant of CuPick: the drawn index is used whatever its flag.
CuPick_AnyIndex(h, i) ==
    /\ AtLoopTop(h)
    /\ ReadGranted(h)
    /\ upstream_address_alive_num /= 0
    /\ waitq' = Tail(waitq)
    /\ readers' = readers \cup {h}
    /\ upstream_idx' = [upstream_idx EXCEPT ![h] = i]
    /\ pc' = [pc EXCEPT ![h] = "cu_connect"]
    /\ UNCHANGED <<pool, limiter, max_requests_per_minute, client_ip, sent, upstream,
                   probed>>

\* The draw hits a flagged-alive index: the handler starts connecting to it,
\* keeping the read guard.
CuPick(h, i) ==
    /\ AtLoopTop(h)
    /\ ReadGranted(h)
    /\ upstream_address_alive_num /= 0
    /\ upstream_address_flags[i]
    /\ waitq' = Tail(waitq)
    /\ readers' = readers \cup {h}
    /\ upstream_idx' = [upstream_idx EXCEPT ![h] = i]
    /\ pc' = [pc EXCEPT ![h] = "cu_connect"]
    /\ UNCHANGED <<pool, limiter, max_requests_per_minute, client_ip, sent, upstream, probed>>

\* TcpStream::connect succeeds: return Ok(stream), the guard is dropped.
CuConnectOk(h) ==
    /\ pc[h] = "cu_connect"
    /\ upstream[upstream_idx[h]] = "ok"
    /\ readers' = readers \ {h}
    /\ pc' = [pc EXCEPT ![h] = "await_req"]
    /\ UNCHANGED <<pool, limiter, max_requests_per_minute, waitq, upstream_idx,
                   client_ip, sent, upstream, probed>>

\* Mutant of CuConnectErr: the write lock is awaited with the read guard held.
CuConnectErr_KeepsGuard(h) ==
    /\ pc[h] = "cu_connect"
    /\ upstream[upstream_idx[h]] = "refuse"
    /\ waitq' = Append(waitq, h)
    /\ pc' = [pc EXCEPT ![h] = "cu_write"]
    /\ UNCHANGED <<pool, limiter, max_requests_per_minute, readers, upstream_idx,
                   client_ip, sent, upstream, probed>>

\* TcpStream::connect fails: drop(state_r), then wait for the write lock.
CuConnectErr(h) ==
    /\ pc[h] = "cu_connect"
    /\ upstream[upstream_idx[h]] = "refuse"
    /\ readers' = readers \ {h}
    /\ waitq' = Append(waitq, h)
    /\ pc' = [pc EXCEPT ![h] = "cu_write"]
    /\ UNCHANGED <<pool, limiter, max_requests_per_minute, upstream_idx,
                   client_ip, sent, upstream, probed>>

\* The write guard is granted: the flag is cleared and alive_num decremented,
\* whatever the flag was; then the loop asks for the read lock again.
CuMarkDead(h) ==
    /\ pc[h] = "cu_write"
    /\ WriteGranted(h)
    /\ upstream_address_flags' =
           [upstream_address_flags EXCEPT ![upstream_idx[h]] = FALSE]
    /\ \E o \in SubOne(upstream_address_alive_num) :
           /\ upstream_address_alive_num' = o[2]
           /\ IF o[1] = "panic"
              THEN /\ Return(h, "panicked")
                   /\ waitq' = Tail(waitq)
              ELSE /\ pc' = [pc EXCEPT ![h] = "cu_retry"]
                   /\ waitq' = Append(Tail(waitq), h)
                   /\ UNCHANGED <<upstream_idx, client_ip>>
    /\ probed' = [probed EXCEPT ![upstream_idx[h]] = IF @ = "alive" THEN "none" ELSE @]
    /\ UNCHANGED <<limiter, max_requests_per_minute, readers, sent, upstream>>

\* ------------------------------------------------------- handle_connection
\* The mapping of a request::Error to the status of the error response.
ErrorStatus(error) ==
    CASE error \in {"IncompleteRequestN", "MalformedRequest",
                    "InvalidContentLength", "ContentLengthMismatch"} -> BAD_REQUEST
      [] error = "RequestBodyTooLarge" -> PAYLOAD_TOO_LARGE
      [] error = "ConnectionError" -> SERVICE_UNAVAILABLE

\* The count stored for an IP (0 when the map has no entry).
Count(counter, ip) == IF ip \in DOMAIN counter THEN counter[ip] ELSE 0

\* The requests of an IP that are inside rate_limiting_check.
InCheck(ip) == {h \in Handlers : client_ip[h] = ip /\ pc[h] \in {"rl_read", "rl_write"}}

\* request::read_from_stream returns Ok(request): the handler calls
\* rate_limiting_check, which waits for the read lock.
ReadRequestOk(h) ==
    /\ pc[h] = "await_req"
    /\ \/ max_requests_per_minute = 0
       \/ Count(rate_limiting_counter, client_ip[h])
              + Cardinality(InCheck(client_ip[h])) < MaxCount
    /\ waitq' = Append(waitq, h)
    /\ pc' = [pc EXCEPT ![h] = "rl_read"]
    /\ UNCHANGED <<pool, limiter, max_requests_per_minute, readers, upstream_idx,
                   client_ip, sent, upstream, probed>>

\* Mutant of ReadRequestClosed: an error response is sent before returning.
ReadRequestClosed_Responds(h, result) ==
    /\ pc[h] = "await_req"
    /\ result \in {"IncompleteRequest0", "ConnectionError"}
    /\ sent' = <<h, IF result = "ConnectionError" THEN SERVICE_UNAVAILABLE
                    ELSE BAD_REQUEST>>
    /\ Return(h, "done")
    /\ UNCHANGED <<pool, limiter, max_requests_per_minute, lock, upstream, probed>>

\* The client closed the connection (IncompleteRequest(0)) or reading the
\* client socket failed (ConnectionError): the handler returns.
ReadRequestClosed(h, result) ==
    /\ pc[h] = "await_req"
    /\ result \in {"IncompleteRequest0", "ConnectionError"}
    /\ Return(h, "done")
    /\ UNCHANGED <<pool, limiter, max_requests_per_minute, lock, sent, upstream, probed>>

\* Mutant of ReadRequestErr: the handler returns after the error response.
ReadRequestErr_Closes(h, result) ==
    /\ pc[h] = "await_req"
    /\ result \in RequestResults \ {"Ok", "IncompleteRequest0", "ConnectionError"}
    /\ sent' = <<h, ErrorStatus(result)>>
    /\ Return(h, "done")
    /\ UNCHANGED <<pool, limiter, max_requests_per_minute, lock, upstream, probed>>

\* Mutant of ReadRequestErr: the request is counted before it is parsed.
ReadRequestErr_Counts(h, result) ==
    /\ pc[h] = "await_req"
    /\ result \in RequestResults \ {"Ok", "IncompleteRequest0", "ConnectionError"}
    /\ sent' = <<h, ErrorStatus(result)>>
    /\ rate_limiting_counter' =
           [a \in DOMAIN rate_limiting_counter \cup {client_ip[h]} |->
               IF a = client_ip[h]
               THEN (IF a \in DOMAIN rate_limiting_counter
                     THEN rate_limiting_counter[a] ELSE 0) + 1
               ELSE rate_limiting_counter[a]]
    /\ UNCHANGED <<pool, window_reqs, max_requests_per_minute, lock, pc, upstream_idx,
                   client_ip, upstream, probed>>

\* Any other error: the error response is sent and the loop continues.
ReadRequestErr(h, result) ==
    /\ pc[h] = "await_req"
    /\ result \in RequestResults \ {"Ok", "IncompleteRequest0", "ConnectionError"}
    /\ sent' = <<h, ErrorStatus(result)>>
    /\ UNCHANGED <<pool, limiter, max_requests_per_minute, lock, pc, upstream_idx,
                   client_ip, upstream, probed>>

\* Mutant of RlCheckLimit: a limit of 0 is not special.
RlCheckLimit_NoBypass(h) ==
    /\ pc[h] = "rl_read"
    /\ ReadGranted(h)
    /\ waitq' = Append(Tail(waitq), h)
    /\ pc' = [pc EXCEPT ![h] = "rl_write"]
    /\ UNCHANGED <<pool, limiter, max_requests_per_minute, readers, upstream_idx,
                   client_ip, sent, upstream, probed>>

\* rate_limiting_check, the read of max_requests_per_minute: 0 returns Ok(())
\* at once; otherwise the guard is dropped and the write lock is awaited.
RlCheckLimit(h) ==
    /\ pc[h] = "rl_read"
    /\ ReadGranted(h)
    /\ IF max_requests_per_minute = 0
       THEN /\ waitq' = Tail(waitq)
            /\ pc' = [pc EXCEPT ![h] = "forward"]
       ELSE /\ waitq' = Append(Tail(waitq), h)
            /\ pc' = [pc EXCEPT ![h] = "rl_write"]
    /\ UNCHANGED <<pool, limiter, max_requests_per_minute, readers, upstream_idx,
                   client_ip, sent, upstream, probed>>

\* Mutant of Increment: one count for all clients.
Increment_All(counter, ip) ==
    [a \in DOMAIN counter \cup {ip} |->
        (IF a \in DOMAIN counter THEN counter[a] ELSE 0) + 1]

\* Mutant of Increment: the entry is written from a count read before other
\* handlers' increments.
Increment_Stale(counter, ip) ==
    [a \in DOMAIN counter \cup {ip} |-> IF a = ip THEN 1 ELSE counter[a]]

\* HashMap::entry(ip).or_insert(0), then *count += 1.
Increment(counter, ip) ==
    [a \in DOMAIN counter \cup {ip} |->
        IF a = ip THEN Count(counter, ip) + 1 ELSE counter[a]]

\* Mutant of Exceeded: the request that reaches the limit is rejected too.
Exceeded_AtLimit(count, limit) == count >= limit

\* *count > max_requests_per_minute
Exceeded(count, limit) == count > limit

\* Mutant of RlIncrement: a rejected request is not counted.
RlIncrement_RejectedNotCounted(h) ==
    /\ pc[h] = "rl_write"
    /\ WriteGranted(h)
    /\ waitq' = Tail(waitq)
    /\ IF Exceeded(Increment(rate_limiting_counter, client_ip[h])[client_ip[h]],
                   max_requests_per_minute)
       THEN /\ UNCHANGED limiter
            /\ sent' = <<h, TOO_MANY_REQUESTS>>
            /\ pc' = [pc EXCEPT ![h] = "await_req"]
       ELSE /\ rate_limiting_counter' = Increment(rate_limiting_counter, client_ip[h])
            /\ window_reqs' = [window_reqs EXCEPT ![client_ip[h]] = @ + 1]
            /\ sent' = sent
            /\ pc' = [pc EXCEPT ![h] = "forward"]
    /\ UNCHANGED <<pool, max_requests_per_minute, readers, upstream_idx, client_ip,
                   upstream, probed>>

\* Mutant of RlIncrement: the 429 is sent but the `continue` is missing.
RlIncrement_NoContinue(h) ==
    /\ pc[h] = "rl_write"
    /\ WriteGranted(h)
    /\ waitq' = Tail(waitq)
    /\ rate_limiting_counter' = Increment(rate_limiting_counter, client_ip[h])
    /\ window_reqs' = [window_reqs EXCEPT ![client_ip[h]] = @ + 1]
    /\ IF Exceeded(rate_limiting_counter'[client_ip[h]], max_requests_per_minute)
       THEN sent' = <<h, TOO_MANY_REQUESTS>>
       ELSE sent' = sent
    /\ pc' = [pc EXCEPT ![h] = "forward"]
    /\ UNCHANGED <<pool, max_requests_per_minute, readers, upstream_idx, client_ip,
                   upstream, probed>>

\* rate_limiting_check under the write guard: count the request and compare;
\* Err sends 429 and continues the loop, Ok goes on to forward the request.
RlIncrement(h) ==
    /\ pc[h] = "rl_write"
    /\ WriteGranted(h)
    /\ waitq' = Tail(waitq)
    /\ rate_limiting_counter' = Increment(rate_limiting_counter, client_ip[h])
    /\ window_reqs' = [window_reqs EXCEPT ![client_ip[h]] = @ + 1]
    /\ IF Exceeded(rate_limiting_counter'[client_ip[h]], max_requests_per_minute)
       THEN /\ sent' = <<h, TOO_MANY_REQUESTS>>
            /\ pc' = [pc EXCEPT ![h] = "await_req"]
       ELSE /\ sent' = sent
            /\ pc' = [pc EXCEPT ![h] = "forward"]
    /\ UNCHANGED <<pool, max_requests_per_minute, readers, upstream_idx, client_ip,
                   upstream, probed>>

\* Mutant of ForwardOk: the next request is read before the response.
ForwardOk_Pipelines(h) ==
    /\ pc[h] = "forward"
    /\ pc' = [pc EXCEPT ![h] = "await_req"]
    /\ UNCHANGED <<pool, limiter, max_requests_per_minute, lock, upstream_idx,
                   client_ip, sent, upstream, probed>>

\* request::write_to_stream to the upstream succeeds.
ForwardOk(h) ==
    /\ pc[h] = "forward"
    /\ pc' = [pc EXCEPT ![h] = "await_resp"]
    /\ UNCHANGED <<pool, limiter, max_requests_per_minute, lock, upstream_idx,
                   client_ip, sent, upstream, probed>>

\* request::write_to_stream fails: 502 is sent and the handler returns.
ForwardErr(h) ==
    /\ pc[h] = "forward"
    /\ sent' = <<h, BAD_GATEWAY>>
    /\ Return(h, "done")
    /\ UNCHANGED <<pool, limiter, max_requests_per_minute, lock, upstream, probed>>

\* Mutant of RelayResponse: an upstream is selected again for the next request.
RelayResponse_Reselects(h) ==
    /\ pc[h] = "await_resp"
    /\ sent' = <<h, HTTP_OK>>
    /\ waitq' = Append(waitq, h)
    /\ pc' = [pc EXCEPT ![h] = "cu_read"]
    /\ UNCHANGED <<pool, limiter, max_requests_per_minute, readers, upstream_idx,
                   client_ip, upstream, probed>>

\* response::read_from_stream succeeds: the response is relayed to the client
\* (the model's upstreams answer a forwarded request with 200).
RelayResponse(h) ==
    /\ pc[h] = "await_resp"
    /\ sent' = <<h, HTTP_OK>>
    /\ pc' = [pc EXCEPT ![h] = "await_req"]
    /\ UNCHANGED <<pool, limiter, max_requests_per_minute, lock, upstream_idx,
                   client_ip, upstream, probed>>

\* Mutant of ReadResponseErr: the failure also demotes the upstream.
ReadResponseErr_Demotes(h) ==
    /\ pc[h] = "await_resp"
    /\ sent' = <<h, BAD_GATEWAY>>
    /\ upstream_address_flags' =
           [upstream_address_flags EXCEPT ![upstream_idx[h]] = FALSE]
    /\ upstream_address_alive_num' = (upstream_address_alive_num - 1) % UsizeModulus
    /\ Return(h, "done")
    /\ UNCHANGED <<limiter, max_requests_per_minute, lock, upstream, probed>>

\* response::read_from_stream fails: 502 is sent and the handler returns.
ReadResponseErr(h) ==
    /\ pc[h] = "await_resp"
    /\ sent' = <<h, BAD_GATEWAY>>
    /\ Return(h, "done")
    /\ UNCHANGED <<pool, limiter, max_requests_per_minute, lock, upstream, probed>>

\* ----------------------------------------------------- active_health_check
\* The spawned task starts: it waits for the read lock to read the interval
\* and the number of upstreams.
HcStart ==
    /\ pc[HcTask] = "hc_start"
    /\ waitq' = Append(waitq, HcTask)
    /\ pc' = [pc EXCEPT ![HcTask] = "hc_tick0"]
    /\ UNCHANGED <<pool, limiter, max_requests_per_minute, readers, upstream_idx,
                   client_ip, sent, upstream, probed>>

\* Mutant of HcFirstTick: the warm-up tick is missing, the first cycle starts
\* at once.
HcFirstTick_Probes ==
    /\ pc[HcTask] = "hc_tick0"
    /\ ReadGranted(HcTask)
    /\ upstream_idx' = [upstream_idx EXCEPT ![HcTask] = 1]
    /\ waitq' = Append(Tail(waitq), HcTask)
    /\ pc' = [pc EXCEPT ![HcTask] = "hc_read"]
    /\ UNCHANGED <<pool, limiter, max_requests_per_minute, readers, client_ip, sent,
                   upstream, probed>>

\* The read guard is granted: the interval is built, the guard dropped, and
\* the first interval.tick() completes at once, without a probe.
HcFirstTick ==
    /\ pc[HcTask] = "hc_tick0"
    /\ ReadGranted(HcTask)
    /\ waitq' = Tail(waitq)
    /\ pc' = [pc EXCEPT ![HcTask] = "hc_sleep"]
    /\ UNCHANGED <<pool, limiter, max_requests_per_minute, readers, upstream_idx,
                   client_ip, sent, upstream, probed>>

\* The interval has passed: the for loop starts at the first upstream and
\* waits for the read lock.
HcTick ==
    /\ pc[HcTask] = "hc_sleep"
    /\ upstream_idx' = [upstream_idx EXCEPT ![HcTask] = 1]
    /\ waitq' = Append(waitq, HcTask)
    /\ pc' = [pc EXCEPT ![HcTask] = "hc_read"]
    /\ probed' = [i \in Upstreams |-> "none"]
    /\ UNCHANGED <<pool, limiter, max_requests_per_minute, readers, client_ip, sent,
                   upstream>>

\* The read guard is granted; the probe (connect, write, read) runs with the
\* guard held.
HcProbeStart ==
    /\ pc[HcTask] = "hc_read"
    /\ ReadGranted(HcTask)
    /\ waitq' = Tail(waitq)
    /\ readers' = readers \cup {HcTask}
    /\ pc' = [pc EXCEPT ![HcTask] = "hc_probe"]
    /\ UNCHANGED <<pool, limiter, max_requests_per_minute, upstream_idx, client_ip,
                   sent, upstream, probed>>

\* The end of the for loop's body with the guard dropped: the next upstream,
\* or back to interval.tick().
HcContinue ==
    /\ readers' = readers \ {HcTask}
    /\ IF upstream_idx[HcTask] < NumUpstreams
       THEN /\ upstream_idx' = [upstream_idx EXCEPT ![HcTask] = @ + 1]
            /\ waitq' = Append(waitq, HcTask)
            /\ pc' = [pc EXCEPT ![HcTask] = "hc_read"]
       ELSE /\ upstream_idx' = [upstream_idx EXCEPT ![HcTask] = 0]
            /\ waitq' = waitq
            /\ pc' = [pc EXCEPT ![HcTask] = "hc_sleep"]

\* drop(state_r), then wait for the write lock to change the flag.
HcAwaitWrite(label) ==
    /\ readers' = readers \ {HcTask}
    /\ waitq' = Append(waitq, HcTask)
    /\ pc' = [pc EXCEPT ![HcTask] = label]
    /\ UNCHANGED upstream_idx

\* The branches that find the upstream unhealthy: nothing to do when the
\* flag is already false, else go and clear it.
HcUnhealthy ==
    IF ~upstream_address_flags[upstream_idx[HcTask]]
    THEN HcContinue
    ELSE HcAwaitWrite("hc_write_dead")

\* TcpStream::connect fails.
HcConnectErr ==
    /\ pc[HcTask] = "hc_probe"
    /\ upstream[upstream_idx[HcTask]] = "refuse"
    /\ HcUnhealthy
    /\ probed' = [probed EXCEPT ![upstream_idx[HcTask]] = "dead"]
    /\ UNCHANGED <<pool, limiter, max_requests_per_minute, client_ip, sent, upstream>>

\* request::write_to_stream fails: the guard is dropped and the loop continues.
HcWriteErr ==
    /\ pc[HcTask] = "hc_probe"
    /\ upstream[upstream_idx[HcTask]] = "ok"
    /\ HcContinue
    /\ UNCHANGED <<pool, limiter, max_requests_per_minute, client_ip, sent, upstream, probed>>

\* response::read_from_stream fails.
HcReadErr ==
    /\ pc[HcTask] = "hc_probe"
    /\ upstream[upstream_idx[HcTask]] = "ok"
    /\ HcUnhealthy
    /\ UNCHANGED <<pool, limiter, max_requests_per_minute, client_ip, sent, upstream, probed>>

\* The response's status is 200.
HcStatus200 ==
    /\ pc[HcTask] = "hc_probe"
    /\ upstream[upstream_idx[HcTask]] = "ok"
    /\ IF upstream_address_flags[upstream_idx[HcTask]]
       THEN HcContinue
       ELSE HcAwaitWrite("hc_write_alive")
    /\ probed' = [probed EXCEPT ![upstream_idx[HcTask]] =
                      IF upstream_address_flags[upstream_idx[HcTask]] THEN @ ELSE "alive"]
    /\ UNCHANGED <<pool, limiter, max_requests_per_minute, client_ip, sent, upstream>>

\* Mutant of HcStatusOther: a status other than 200 is let through.
HcStatusOther_Ignored ==
    /\ pc[HcTask] = "hc_probe"
    /\ upstream[upstream_idx[HcTask]] = "ok"
    /\ HcContinue
    /\ probed' = [probed EXCEPT ![upstream_idx[HcTask]] = "dead"]
    /\ UNCHANGED <<pool, limiter, max_requests_per_minute, client_ip, sent, upstream>>

\* The response's status is not 200.
HcStatusOther ==
    /\ pc[HcTask] = "hc_probe"
    /\ upstream[upstream_idx[HcTask]] = "ok"
    /\ HcUnhealthy
    /\ probed' = [probed EXCEPT ![upstream_idx[HcTask]] = "dead"]
    /\ UNCHANGED <<pool, limiter, max_requests_per_minute, client_ip, sent, upstream>>

\* The end of the for loop's body after a write section.
HcAfterWrite ==
    IF upstream_idx[HcTask] < NumUpstreams
    THEN /\ upstream_idx' = [upstream_idx EXCEPT ![HcTask] = @ + 1]
         /\ waitq' = Append(Tail(waitq), HcTask)
         /\ pc' = [pc EXCEPT ![HcTask] = "hc_read"]
    ELSE /\ upstream_idx' = [upstream_idx EXCEPT ![HcTask] = 0]
         /\ waitq' = Tail(waitq)
         /\ pc' = [pc EXCEPT ![HcTask] = "hc_sleep"]

\* A usize update panicked: the task ends, its guard is dropped.
HcPanic ==
    /\ pc' = [pc EXCEPT ![HcTask] = "panicked"]
    /\ waitq' = Tail(waitq)
    /\ UNCHANGED upstream_idx

\* The write guard is granted: flag = false, alive_num -= 1.
HcMarkDead ==
    /\ pc[HcTask] = "hc_write_dead"
    /\ WriteGranted(HcTask)
    /\ upstream_address_flags' =
           [upstream_address_flags EXCEPT ![upstream_idx[HcTask]] = FALSE]
    /\ \E o \in SubOne(upstream_address_alive_num) :
           /\ upstream_address_alive_num' = o[2]
           /\ IF o[1] = "panic" THEN HcPanic ELSE HcAfterWrite
    /\ UNCHANGED <<limiter, max_requests_per_minute, readers, client_ip, sent, upstream, probed>>

\* Mutant of HcMarkAlive: one 200 revives every upstream.
HcMarkAlive_All ==
    /\ pc[HcTask] = "hc_write_alive"
    /\ WriteGranted(HcTask)
    /\ upstream_address_flags' = [i \in Upstreams |-> TRUE]
    /\ \E o \in AddOne(upstream_address_alive_num) :
           /\ upstream_address_alive_num' = o[2]
           /\ IF o[1] = "panic" THEN HcPanic ELSE HcAfterWrite
    /\ UNCHANGED <<limiter, max_requests_per_minute, readers, client_ip, sent, upstream,
                   probed>>

\* The write guard is granted: flag = true, alive_num += 1.
HcMarkAlive ==
    /\ pc[HcTask] = "hc_write_alive"
    /\ WriteGranted(HcTask)
    /\ upstream_address_flags' =
           [upstream_address_flags EXCEPT ![upstream_idx[HcTask]] = TRUE]
    /\ \E o \in AddOne(upstream_address_alive_num) :
           /\ upstream_address_alive_num' = o[2]
           /\ IF o[1] = "panic" THEN HcPanic ELSE HcAfterWrite
    /\ UNCHANGED <<limiter, max_requests_per_minute, readers, client_ip, sent, upstream, probed>>

\* ----------------------------------------------- rate_limiting_counter_clear
\* The first interval.tick() completes at once.
RcFirstTick ==
    /\ pc[RcTask] = "rc_tick0"
    /\ pc' = [pc EXCEPT ![RcTask] = "rc_sleep"]
    /\ UNCHANGED <<pool, limiter, max_requests_per_minute, lock, upstream_idx,
                   client_ip, sent, upstream, probed>>

\* 60 seconds have passed: the resetter waits for the write lock.
RcTick ==
    /\ pc[RcTask] = "rc_sleep"
    /\ waitq' = Append(waitq, RcTask)
    /\ pc' = [pc EXCEPT ![RcTask] = "rc_write"]
    /\ UNCHANGED <<pool, limiter, max_requests_per_minute, readers, upstream_idx,
                   client_ip, sent, upstream, probed>>

\* Mutant of RcClear: the counts are zeroed, the keys stay.
RcClear_Zeroes ==
    /\ pc[RcTask] = "rc_write"
    /\ WriteGranted(RcTask)
    /\ waitq' = Tail(waitq)
    /\ rate_limiting_counter' = [a \in DOMAIN rate_limiting_counter |-> 0]
    /\ window_reqs' = [a \in ClientIps |-> 0]
    /\ pc' = [pc EXCEPT ![RcTask] = "rc_sleep"]
    /\ UNCHANGED <<pool, max_requests_per_minute, readers, upstream_idx, client_ip,
                   sent, upstream, probed>>

\* state.write().await.rate_limiting_counter.clear()
RcClear ==
    /\ pc[RcTask] = "rc_write"
    /\ WriteGranted(RcTask)
    /\ waitq' = Tail(waitq)
    /\ rate_limiting_counter' = [a \in {} |-> 0]
    /\ window_reqs' = [a \in ClientIps |-> 0]
    /\ pc' = [pc EXCEPT ![RcTask] = "rc_sleep"]
    /\ UNCHANGED <<pool, max_requests_per_minute, readers, upstream_idx, client_ip,
                   sent, upstream, probed>>

\* ---------------------------------------------------------- specification
Next ==
    \/ \E i \in Upstreams, s \in UpstreamStates : UpstreamChange(i, s)
    \/ \E h \in Handlers : \E ip \in ClientIpsOf(h) : Accept(h, ip)
    \/ \E h \in Handlers : CuExhausted(h)
    \/ \E h \in Handlers, i \in Upstreams : CuDeadHit(h, i)
    \/ \E h \in Handlers, i \in Upstreams : CuPick(h, i)
    \/ \E h \in Handlers : CuConnectOk(h)
    \/ \E h \in Handlers : CuConnectErr(h)
    \/ \E h \in Handlers : CuMarkDead(h)
    \/ \E h \in Handlers : ReadRequestOk(h)
    \/ \E h \in Handlers, r \in RequestResults : ReadRequestClosed(h, r)
    \/ \E h \in Handlers, r \in RequestResults : ReadRequestErr(h, r)
    \/ \E h \in Handlers : RlCheckLimit(h)
    \/ \E h \in Handlers : RlIncrement(h)
    \/ \E h \in Handlers : ForwardOk(h)
    \/ \E h \in Handlers : ForwardErr(h)
    \/ \E h \in Handlers : RelayResponse(h)
    \/ \E h \in Handlers : ReadResponseErr(h)
    \/ HcStart
    \/ HcFirstTick
    \/ HcTick
    \/ HcProbeStart
    \/ HcConnectErr
    \/ HcWriteErr
    \/ HcReadErr
    \/ HcStatus200
    \/ HcStatusOther
    \/ HcMarkDead
    \/ HcMarkAlive
    \/ RcFirstTick
    \/ RcTick
    \/ RcClear

Spec == Init /\ [][Next]_vars

\* Selection, failover and health checking: clients connect and may hang up,
\* but send no request; the limiter is off.
InitPool == Init /\ max_requests_per_minute = 0

NextPool ==
    \/ \E i \in Upstreams, s \in UpstreamStates : UpstreamChange(i, s)
    \/ \E h \in Handlers : \E ip \in ClientIpsOf(h) : Accept(h, ip)
    \/ \E h \in Handlers : CuExhausted(h)
    \/ \E h \in Handlers, i \in Upstreams : CuDeadHit(h, i)
    \/ \E h \in Handlers, i \in Upstreams : CuPick(h, i)
    \/ \E h \in Handlers : CuConnectOk(h)
    \/ \E h \in Handlers : CuConnectErr(h)
    \/ \E h \in Handlers : CuMarkDead(h)
    \/ \E h \in Handlers, r \in RequestResults : ReadRequestClosed(h, r)
    \/ HcStart
    \/ HcFirstTick
    \/ HcTick
    \/ HcProbeStart
    \/ HcConnectErr
    \/ HcWriteErr
    \/ HcReadErr
    \/ HcStatus200
    \/ HcStatusOther
    \/ HcMarkDead
    \/ HcMarkAlive

SpecPool == InitPool /\ [][NextPool]_vars

\* The request loop and the limiter: every upstream accepts connections and
\* the health checker's task has not started yet.
InitConn == Init /\ upstream = [i \in Upstreams |-> "ok"]

NextConn ==
    \/ \E h \in Handlers : \E ip \in ClientIpsOf(h) : Accept(h, ip)
    \/ \E h \in Handlers, i \in Upstreams : CuPick(h, i)
    \/ \E h \in Handlers : CuConnectOk(h)
    \/ \E h \in Handlers : ReadRequestOk(h)
    \/ \E h \in Handlers, r \in RequestResults : ReadRequestClosed(h, r)
    \/ \E h \in Handlers, r \in RequestResults : ReadRequestErr(h, r)
    \/ \E h \in Handlers : RlCheckLimit(h)
    \/ \E h \in Handlers : RlIncrement(h)
    \/ \E h \in Handlers : ForwardOk(h)
    \/ \E h \in Handlers : ForwardErr(h)
    \/ \E h \in Handlers : RelayResponse(h)
    \/ \E h \in Handlers : ReadResponseErr(h)
    \/ RcFirstTick
    \/ RcTick
    \/ RcClear

SpecConn == InitConn /\ [][NextConn]_vars

\* The three kinds of task on the lock together: one client connection, the
\* health checker and the resetter, with the limiter on.
InitLock == Init /\ max_requests_per_minute = MaxLimit

NextLock ==
    \/ \E i \in Upstreams, s \in UpstreamStates : UpstreamChange(i, s)
    \/ \E ip \in ClientIpsOf(1) : Accept(1, ip)
    \/ \E h \in Handlers : CuExhausted(h)
    \/ \E h \in Handlers, i \in Upstreams : CuDeadHit(h, i)
    \/ \E h \in Handlers, i \in Upstreams : CuPick(h, i)
    \/ \E h \in Handlers : CuConnectOk(h)
    \/ \E h \in Handlers : CuConnectErr(h)
    \/ \E h \in Handlers : CuMarkDead(h)
    \/ \E h \in Handlers : ReadRequestOk(h)
    \/ \E h \in Handlers, r \in RequestResults : ReadRequestClosed(h, r)
    \/ \E h \in Handlers, r \in RequestResults : ReadRequestErr(h, r)
    \/ \E h \in Handlers : RlCheckLimit(h)
    \/ \E h \in Handlers : RlIncrement(h)
    \/ \E h \in Handlers : ForwardOk(h)
    \/ \E h \in Handlers : ForwardErr(h)
    \/ \E h \in Handlers : RelayResponse(h)
    \/ \E h \in Handlers : ReadResponseErr(h)
    \/ HcStart
    \/ HcFirstTick
    \/ HcTick
    \/ HcProbeStart
    \/ HcConnectErr
    \/ HcWriteErr
    \/ HcReadErr
    \/ HcStatus200
    \/ HcStatusOther
    \/ HcMarkDead
    \/ HcMarkAlive
    \/ RcFirstTick
    \/ RcTick
    \/ RcClear

SpecLock == InitLock /\ [][NextLock]_vars

\* ------------------------------------------------------------ the claims
\* A step that clears the flag of upstream i (either path).
MarkDeadOn(i) ==
    \/ \E h \in Handlers : CuMarkDead(h) /\ upstream_idx[h] = i
    \/ HcMarkDead /\ upstream_idx[HcTask] = i

\* A step that sets the flag of upstream i.
MarkAliveOn(i) == HcMarkAlive /\ upstream_idx[HcTask] = i

\* A step in which connect_to_upstream of handler h, holding the read guard,
\* looks at the pool.
Selects(h) ==
    \/ CuExhausted(h)
    \/ \E i \in Upstreams : CuDeadHit(h, i) \/ CuPick(h, i)

\* C1: in every reachable state upstream_address_alive_num is the number of
\* true entries of upstream_address_flags.
C1_AliveNumCountsFlags == upstream_address_alive_num = Cardinality(AliveFlags)

\* C2: marking is idempotent: a mark-dead step on an index whose flag is
\* already false (a second mark-dead with no mark-alive in between) leaves
\* alive_num as it is, and so does a mark-alive step on a flag already true.
C2_IdempotentMarking ==
    [][\A i \in Upstreams :
          /\ (~upstream_address_flags[i] /\ MarkDeadOn(i))
                 => upstream_address_alive_num' = upstream_address_alive_num
          /\ (upstream_address_flags[i] /\ MarkAliveOn(i))
                 => upstream_address_alive_num' = upstream_address_alive_num]_vars

\* C3: 0 <= alive_num <= N in every reachable state, and no task has hit a
\* decrement at 0 or an increment at the maximum (which panics or wraps).
C3_AliveNumInRange ==
    /\ upstream_address_alive_num \in 0..NumUpstreams
    /\ \A t \in Tasks : pc[t] /= "panicked"

\* C4: failover correctness: a selection only picks flagged-alive indices, a
\* flag cleared after a failed connect is set again only by the health
\* checker's mark-alive, and a selection that suffered a failed connect does
\* not report exhaustion while another upstream is flagged alive and accepts
\* connections.
C4_FailoverCorrectness ==
    [][/\ \A h \in Handlers, i \in Upstreams :
              CuPick(h, i) => upstream_address_flags[i]
       /\ \A i \in Upstreams :
              (~upstream_address_flags[i] /\ upstream_address_flags'[i])
                  => MarkAliveOn(i)
       /\ \A h \in Handlers :
              (pc[h] = "cu_retry" /\ CuExhausted(h))
                  => ~\E i \in Upstreams \ {upstream_idx[h]} :
                         upstream_address_flags[i] /\ upstream[i] = "ok"]_vars

\* C5: exhaustion: when no upstream is flagged alive as a handler that has
\* made no connection attempt looks at the pool, connect_to_upstream returns
\* the error at once (no attempt, no further iteration) and 502 is sent.
C5_Exhaustion ==
    [][\A h \in Handlers :
          (pc[h] = "cu_read" /\ AliveFlags = {} /\ Selects(h))
              => (pc'[h] = "done" /\ sent' = <<h, BAD_GATEWAY>>)]_vars

\* C6 as stated: when no live upstream is available the handler answers 502
\* and goes back to awaiting a request on the same client connection.
C6_ExhaustionStaysOpen ==
    [][\A h \in Handlers :
          CuExhausted(h) => (sent' = <<h, BAD_GATEWAY>> /\ pc'[h] = "await_req")]_vars

\* C6 amended: when connect_to_upstream reports that no upstream is available
\* the handler answers 502 and returns: the client connection is closed and
\* the handler never reads a request from it.
C6_ExhaustionCloses ==
    [][\A h \in Handlers :
          /\ CuExhausted(h) => (sent' = <<h, BAD_GATEWAY>> /\ pc'[h] = "done")
          /\ pc[h] = "done" => pc'[h] = "done"]_vars

C6_Witness ==
    \E h \in Handlers :
        /\ pc[h] = "done"
        /\ sent = <<h, BAD_GATEWAY>>
        /\ upstream_address_alive_num = 0

\* C7: with a limit L > 0 the k-th request an IP has counted in a window is
\* answered 429 (and the loop continues) exactly when k > L; the other
\* requests go on to be forwarded; a clear starts a new window.
C7_RateLimitWindow ==
    [][/\ \A h \in Handlers :
              RlIncrement(h) =>
                  /\ max_requests_per_minute > 0
                  /\ window_reqs'[client_ip[h]] = window_reqs[client_ip[h]] + 1
                  /\ IF window_reqs'[client_ip[h]] > max_requests_per_minute
                     THEN sent' = <<h, TOO_MANY_REQUESTS>> /\ pc'[h] = "await_req"
                     ELSE sent' = sent /\ pc'[h] = "forward"
       /\ RcClear => \A a \in ClientIps : window_reqs'[a] = 0]_vars

C7_Witness ==
    \E h \in Handlers :
        /\ max_requests_per_minute > 0
        /\ sent = <<h, TOO_MANY_REQUESTS>>
        /\ pc[h] = "await_req"
        /\ window_reqs[client_ip[h]] = max_requests_per_minute + 1

\* C8: with max_requests_per_minute = 0 no 429 is ever sent and the counter
\* map stays empty.
C8_LimiterBypassed ==
    max_requests_per_minute = 0 =>
        /\ DOMAIN rate_limiting_counter = {}
        /\ sent[2] /= TOO_MANY_REQUESTS

C8_Witness ==
    /\ max_requests_per_minute = 0
    /\ \E h \in Handlers : sent = <<h, HTTP_OK>> /\ pc[h] = "await_resp"
    /\ pc[RcTask] = "rc_sleep"

\* The status the error table gives for a request that could not be parsed.
C9_TableStatus(result) ==
    IF result = "RequestBodyTooLarge" THEN PAYLOAD_TOO_LARGE ELSE BAD_REQUEST

\* C9: a malformed or incomplete request (400) or an oversized body (413) is
\* answered with the error response and the handler stays in AwaitingRequest
\* on the same client connection with its upstream connection.
C9_MalformedRequestRecovers ==
    [][\A h \in Handlers :
          \A r \in {"IncompleteRequestN", "MalformedRequest", "InvalidContentLength",
                    "ContentLengthMismatch", "RequestBodyTooLarge"} :
              ReadRequestErr(h, r) =>
                  /\ sent' = <<h, C9_TableStatus(r)>>
                  /\ pc'[h] = "await_req"
                  /\ upstream_idx'[h] = upstream_idx[h]
                  /\ upstream_idx[h] \in Upstreams]_vars

\* A 400 was answered and the next request of the same connection has been
\* forwarded to the handler's upstream.
C9_Witness ==
    \E h \in Handlers :
        /\ sent = <<h, BAD_REQUEST>>
        /\ pc[h] = "await_resp"
        /\ upstream_idx[h] \in Upstreams

\* C10: a failure writing the request to the upstream or reading its response
\* makes the handler send 502 and return, leaving the flags and alive_num as
\* they are; a handler that returned never selects or forwards again.
C10_UpstreamFailureIsFatal ==
    [][\A h \in Handlers :
          /\ (pc[h] \in {"forward", "await_resp"} /\ sent' = <<h, BAD_GATEWAY>>)
                 => (ForwardErr(h) \/ ReadResponseErr(h))
          /\ (ForwardErr(h) \/ ReadResponseErr(h)) =>
                 /\ sent' = <<h, BAD_GATEWAY>>
                 /\ pc'[h] = "done"
                 /\ UNCHANGED pool
          /\ pc[h] = "done" => pc'[h] = "done"]_vars

C10_Witness ==
    \E h \in Handlers :
        /\ pc[h] = "done"
        /\ sent = <<h, BAD_GATEWAY>>
        /\ max_requests_per_minute > 0

\* C11: when the checker has finished a cycle, every upstream whose probe in
\* that cycle was refused or answered with a status other than 200 is flagged
\* dead, and every upstream that was flagged dead and answered 200 is flagged
\* alive unless a handler demoted it after the probe.
C11_HealthCheckConvergence ==
    pc[HcTask] = "hc_sleep" =>
        \A i \in Upstreams :
            /\ probed[i] = "dead" => ~upstream_address_flags[i]
            /\ probed[i] = "alive" => upstream_address_flags[i]

\* A finished cycle that demoted one upstream and revived another.
C11_Witness ==
    /\ pc[HcTask] = "hc_sleep"
    /\ \E i, j \in Upstreams : probed[i] = "dead" /\ probed[j] = "alive"

\* The probe of the current upstream ends with one of its five outcomes.
HcProbeEnds ==
    HcConnectErr \/ HcWriteErr \/ HcReadErr \/ HcStatus200 \/ HcStatusOther

\* C12: a probe that fails to connect, to write the request or to read the
\* response, or that reads a status other than 200, results in mark-dead (the
\* flag, if true, is cleared by the checker's next write section); a probe
\* that reads 200 results in mark-alive.
C12_ProbeClassification ==
    [][/\ (HcConnectErr \/ HcWriteErr \/ HcReadErr \/ HcStatusOther) =>
              (upstream_address_flags[upstream_idx[HcTask]]
                   => pc'[HcTask] = "hc_write_dead")
       /\ HcStatus200 =>
              (~upstream_address_flags[upstream_idx[HcTask]]
                   => pc'[HcTask] = "hc_write_alive")
       /\ HcMarkDead => ~upstream_address_flags'[upstream_idx[HcTask]]
       /\ HcMarkAlive => upstream_address_flags'[upstream_idx[HcTask]]]_vars

\* C13: a probe in progress can always end by a step of the checker itself,
\* whatever the probed upstream does, so that the cycle goes on to the next
\* upstream.
C13_ProbeAlwaysEnds == pc[HcTask] = "hc_probe" => ENABLED HcProbeEnds

\* A step of handler g that needs the RwLock: the selection, the mark-dead
\* write section and the two halves of rate_limiting_check.
LockStep(g) == Selects(g) \/ CuMarkDead(g) \/ RlCheckLimit(g) \/ RlIncrement(g)

\* C14: a handler that is first in line for the lock while the checker holds
\* no guard can take its step: no other handler, suspended on socket I/O,
\* keeps it waiting.
C14_HandlersDoNotBlock ==
    \A g \in Handlers :
        (waitq /= <<>> /\ Head(waitq) = g /\ HcTask \notin readers)
            => ENABLED LockStep(g)

\* C15: a request the limiter rejects is answered 429 and the handler goes
\* back to awaiting a request with its client and upstream connections; only
\* a request that was not rejected goes on to be written to the upstream.
C15_RejectedRequest ==
    [][\A h \in Handlers :
          /\ (RlIncrement(h)
                 /\ Count(rate_limiting_counter', client_ip[h]) > max_requests_per_minute)
                 => /\ sent' = <<h, TOO_MANY_REQUESTS>>
                    /\ pc'[h] = "await_req"
                    /\ upstream_idx'[h] = upstream_idx[h]
                    /\ client_ip'[h] = client_ip[h]
          /\ (pc[h] /= "forward" /\ pc'[h] = "forward")
                 => Count(rate_limiting_counter', client_ip[h]) <= max_requests_per_minute
          /\ (pc[h] /= "await_resp" /\ pc'[h] = "await_resp") => pc[h] = "forward"]_vars

\* A 429 was answered and the same connection's next request is being checked.
C15_Witness ==
    \E h \in Handlers :
        /\ sent = <<h, TOO_MANY_REQUESTS>>
        /\ pc[h] \in {"rl_read", "rl_write"}
        /\ upstream_idx[h] \in Upstreams

\* The handler has read a request and not yet answered it.
Processing(p) == p \in {"rl_read", "rl_write", "forward", "await_resp"}

\* C16: within a connection a request is read only when no request is being
\* processed, a request being processed is left only by sending a response
\* to the client, and a request is written to the upstream only after the
\* response to the previous one has been read.
C16_InOrder ==
    [][\A h \in Handlers :
          /\ (pc[h] /= "rl_read" /\ pc'[h] = "rl_read") => pc[h] = "await_req"
          /\ (Processing(pc[h]) /\ ~Processing(pc'[h]))
                 => /\ sent'[1] = h
                    /\ sent'[2] \in {HTTP_OK, TOO_MANY_REQUESTS, BAD_GATEWAY}
          /\ (sent' /= sent /\ sent'[1] = h) => pc[h] \in {"await_req", "rl_write",
                                                         "forward", "await_resp"}
          /\ (pc[h] /= "await_resp" /\ pc'[h] = "await_resp") => pc[h] = "forward"
          /\ pc[h] = "forward" => pc'[h] \in {"forward", "await_resp", "done"}
          /\ pc[h] = "await_resp" => pc'[h] \in {"await_resp", "await_req", "done"}]_vars

\* A response was relayed and the connection's next request is about to be
\* written to the upstream.
C16_Witness == \E h \in Handlers : sent = <<h, HTTP_OK>> /\ pc[h] = "forward"

\* C17: with a limit > 0 the count stored for an IP is the number of checks
\* that have run for it since the last clear, however the handlers' checks
\* and the clear interleave.
C17_NoLostIncrement ==
    max_requests_per_minute > 0 =>
        \A a \in ClientIps : Count(rate_limiting_counter, a) = window_reqs[a]

\* Two handlers of one IP were in the check together: one has been counted,
\* the other is still waiting for the write lock.
C17_Witness ==
    \E g, h \in Handlers :
        /\ g /= h
        /\ client_ip[g] = client_ip[h]
        /\ pc[g] = "forward"
        /\ pc[h] = "rl_write"
        /\ Count(rate_limiting_counter, client_ip[h]) = 1

\* C18: the index a handler is connecting to is flagged alive, from the pick
\* to the end of the attempt.
C18_PicksOnlyAlive ==
    \A h \in Handlers :
        pc[h] = "cu_connect" => upstream_address_flags[upstream_idx[h]]

\* With every upstream flagged alive and no failed connect, two selections
\* returned connections to different upstreams.
C18_Witness ==
    /\ AliveFlags = Upstreams
    /\ upstream_address_alive_num = NumUpstreams
    /\ \E g, h \in Handlers :
           /\ pc[g] = "await_req"
           /\ pc[h] = "await_req"
           /\ upstream_idx[g] /= upstream_idx[h]

\* A step after which connect_to_upstream of handler h is no longer at the
\* top of its loop: it returns the error or starts a connection attempt.
LeavesLoopTop(h) == CuExhausted(h) \/ \E i \in Upstreams : CuPick(h, i)

\* C19: whenever connect_to_upstream holds the read guard at the top of its
\* loop it can return the error or attempt a connection: it is never left
\* with dead hits only.
C19_SelectorCanReturn ==
    \A h \in Handlers : (AtLoopTop(h) /\ ReadGranted(h)) => ENABLED LeavesLoopTop(h)

\* handle_connection is in its request loop, with its upstream connection.
InRequestLoop(p) == p = "await_req" \/ Processing(p)

\* C20: selection runs once per connection, on accept; in the request loop
\* the handler keeps the upstream connection it has until it returns; and a
\* step of another handler never touches it.
C20_OneUpstreamPerConnection ==
    [][\A h \in Handlers :
          /\ (pc[h] /= "cu_read" /\ pc'[h] = "cu_read") => pc[h] = "idle"
          /\ (pc[h] /= "cu_connect" /\ pc'[h] = "cu_connect") => AtLoopTop(h)
          /\ InRequestLoop(pc[h]) =>
                 /\ upstream_idx[h] \in Upstreams
                 /\ InRequestLoop(pc'[h]) \/ pc'[h] = "done"
                 /\ InRequestLoop(pc'[h]) => upstream_idx'[h] = upstream_idx[h]
          /\ pc'[h] = pc[h] => upstream_idx'[h] = upstream_idx[h]]_vars

\* Two handlers have a request outstanding, each on its own connection to
\* the same upstream.
C20_Witness ==
    \E g, h \in Handlers :
        /\ g /= h
        /\ pc[g] = "await_resp"
        /\ pc[h] = "await_resp"
        /\ upstream_idx[g] = upstream_idx[h]
        /\ upstream_idx[g] \in Upstreams

\* C21: while the checker's probe waits on a hanging upstream and no one else
\* holds a guard, the task that is first in line for the lock can take its
\* step: a handler its selection, mark-dead or rate-limit step, the resetter
\* its clear.
C21_StalledProbeDoesNotBlock ==
    (/\ pc[HcTask] = "hc_probe"
     /\ upstream[upstream_idx[HcTask]] = "hang"
     /\ readers = {HcTask}
     /\ waitq /= <<>>)
        => /\ Head(waitq) \in Handlers => ENABLED LockStep(Head(waitq))
           /\ Head(waitq) = RcTask => ENABLED RcClear

\* C22: when the client has closed the connection or reading its socket
\* fails, the handler returns: no response is sent, nothing goes to the
\* upstream, and the pool state, the counters and the lock are untouched.
C22_ClientGoneIsSilent ==
    [][\A h \in Handlers :
          \A r \in {"IncompleteRequest0", "ConnectionError"} :
              ReadRequestClosed(h, r) =>
                  /\ pc'[h] = "done"
                  /\ sent' = sent
                  /\ UNCHANGED <<pool, limiter, lock>>]_vars

\* A handler has returned and no response was ever sent to any client.
C22_Witness == sent = <<0, 0>> /\ \E h \in Handlers : pc[h] = "done"

\* C23: every stored count is at least 1, a count is never lowered while its
\* key stays, and the resetter's clear leaves no key.
C23_CountsAtLeastOne ==
    [][/\ \A a \in DOMAIN rate_limiting_counter : rate_limiting_counter[a] >= 1
       /\ \A a \in DOMAIN rate_limiting_counter' : rate_limiting_counter'[a] >= 1
       /\ \A a \in DOMAIN rate_limiting_counter \cap DOMAIN rate_limiting_counter' :
              rate_limiting_counter'[a] >= rate_limiting_counter[a]
       /\ RcClear => DOMAIN rate_limiting_counter' = {}]_vars

\* A counted request is on its way to the upstream and the map is empty: a
\* clear has removed its entry.
C23_Witness ==
    /\ max_requests_per_minute > 0
    /\ DOMAIN rate_limiting_counter = {}
    /\ pc[RcTask] = "rc_sleep"
    /\ \E h \in Handlers : pc[h] = "forward"

\* The checker has not yet consumed its warm-up tick.
BeforeFirstTick == pc[HcTask] \in {"hc_start", "hc_tick0"}

\* C24: until the warm-up tick is consumed the checker holds no guard and has
\* probed nothing, and consuming it changes neither flags nor alive_num; a
\* cycle starts only when an interval has passed, and the checker probes and
\* changes flags only inside a cycle.
C24_NoProbeAtStartup ==
    [][/\ BeforeFirstTick =>
              /\ HcTask \notin readers
              /\ \A i \in Upstreams : probed[i] = "none"
              /\ pc'[HcTask] \in {"hc_start", "hc_tick0", "hc_sleep"}
              /\ pc'[HcTask] /= pc[HcTask] => UNCHANGED <<pool, readers, probed>>
       /\ (pc[HcTask] = "hc_sleep" /\ pc'[HcTask] /= "hc_sleep") => HcTick
       /\ (HcProbeStart \/ HcMarkDead \/ HcMarkAlive)
              => (~BeforeFirstTick /\ pc[HcTask] /= "hc_sleep")]_vars

\* The warm-up tick is consumed, a client is connected, and every upstream
\* is still flagged alive with nothing probed.
C24_Witness ==
    /\ pc[HcTask] = "hc_sleep"
    /\ \A i \in Upstreams : probed[i] = "none"
    /\ AliveFlags = Upstreams
    /\ upstream_address_alive_num = NumUpstreams
    /\ \E h \in Handlers : pc[h] = "await_req"

\* Task t has asked for the lock and has not been granted it yet.
WaitsForLock(t) == \E k \in 1..Len(waitq) : waitq[k] = t

\* The step the task that is first in line takes when the lock is granted.
HeadStep ==
    /\ waitq /= <<>>
    /\ \/ \E g \in Handlers : Head(waitq) = g /\ LockStep(g)
       \/ /\ Head(waitq) = HcTask
          /\ HcFirstTick \/ HcProbeStart \/ HcMarkDead \/ HcMarkAlive
       \/ Head(waitq) = RcTask /\ RcClear

\* C25: a task that holds a read guard is doing socket I/O and is not waiting
\* for the lock; a task waits for the lock at most once; and with no guard
\* out the first waiter can always go on. So whenever tasks wait, a task that
\* does not wait for the lock stands between them and it.
C25_LockDiscipline ==
    /\ \A t \in readers : ~WaitsForLock(t) /\ pc[t] \in {"cu_connect", "hc_probe"}
    /\ \A k, l \in 1..Len(waitq) : k /= l => waitq[k] /= waitq[l]
    /\ \A k \in 1..Len(waitq) :
           pc[waitq[k]] \in {"cu_read", "cu_retry", "cu_write", "rl_read", "rl_write",
                             "hc_tick0", "hc_read", "hc_write_dead", "hc_write_alive",
                             "rc_write"}
    /\ (waitq /= <<>> /\ readers = {}) => ENABLED HeadStep

\* A writer is first in line behind a read guard, with another task behind it.
C25_Witness ==
    /\ readers /= {}
    /\ Len(waitq) >= 2
    /\ pc[Head(waitq)] \in {"cu_write", "rl_write", "rc_write"}

\* C26: a flag goes from false to true only in the checker's mark-alive
\* write section for that index, which is entered only from a probe of that
\* index that read status 200; and a step that changes one flag changes no
\* other.
C26_OnlyCheckerRevives ==
    [][/\ \A i \in Upstreams :
              (~upstream_address_flags[i] /\ upstream_address_flags'[i])
                  => MarkAliveOn(i)
       /\ (pc[HcTask] /= "hc_write_alive" /\ pc'[HcTask] = "hc_write_alive")
              => (HcStatus200 /\ upstream_idx'[HcTask] = upstream_idx[HcTask])
       /\ pc[HcTask] = "hc_write_alive"
              => (HcMarkAlive \/ upstream_idx'[HcTask] = upstream_idx[HcTask])
       /\ \A i, j \in Upstreams :
              (i /= j /\ upstream_address_flags'[i] /= upstream_address_flags[i])
                  => upstream_address_flags'[j] = upstream_address_flags[j]]_vars

\* A cycle revived one upstream and left another flagged dead.
C26_Witness ==
    \E i, j \in Upstreams :
        /\ probed[i] = "alive"
        /\ upstream_address_flags[i]
        /\ ~upstream_address_flags[j]

\* The errors of request::read_from_stream that are answered 400 or 413.
ParseErrors ==
    {"IncompleteRequestN", "MalformedRequest", "InvalidContentLength",
     "ContentLengthMismatch", "RequestBodyTooLarge"}

\* C27: every check under a limit > 0 adds one to its IP's count, the
\* rejected ones included; a count is lowered only by the resetter's clear;
\* and once the count is above the limit (a request was rejected) every
\* further request of that IP is answered 429.
C27_RejectedRequestsCount ==
    [][/\ \A h \in Handlers :
              RlIncrement(h) =>
                  /\ Count(rate_limiting_counter', client_ip[h])
                         = Count(rate_limiting_counter, client_ip[h]) + 1
                  /\ Count(rate_limiting_counter, client_ip[h]) > max_requests_per_minute
                         => (sent' = <<h, TOO_MANY_REQUESTS>> /\ pc'[h] = "await_req")
       /\ \A a \in ClientIps :
              Count(rate_limiting_counter', a) < Count(rate_limiting_counter, a)
                  => RcClear]_vars

\* An IP that had been rejected already was rejected again.
C27_Witness ==
    \E h \in Handlers :
        /\ max_requests_per_minute > 0
        /\ sent = <<h, TOO_MANY_REQUESTS>>
        /\ Count(rate_limiting_counter, client_ip[h]) = max_requests_per_minute + 2

\* C28: a rate-limit check of a connection from IP a changes a's count only,
\* adding one whichever connection it is, and leaves the flags and alive_num
\* alone; the map's keys are client IPs.
C28_KeyedByClientIp ==
    [][\A h \in Handlers :
          /\ (RlCheckLimit(h) \/ RlIncrement(h)) =>
                 /\ UNCHANGED pool
                 /\ \A b \in ClientIps \ {client_ip[h]} :
                        Count(rate_limiting_counter', b) = Count(rate_limiting_counter, b)
                 /\ DOMAIN rate_limiting_counter' \subseteq
                        DOMAIN rate_limiting_counter \cup {client_ip[h]}
          /\ RlIncrement(h) =>
                 Count(rate_limiting_counter', client_ip[h])
                     = window_reqs[client_ip[h]] + 1]_vars

\* Two connections from one IP under limit 1: the first connection's request
\* is with the upstream, the second connection's request was answered 429;
\* the other IP has no count.
C28_Witness ==
    \E g, h \in Handlers :
        /\ g /= h
        /\ client_ip[g] = client_ip[h]
        /\ pc[g] = "await_resp"
        /\ sent = <<h, TOO_MANY_REQUESTS>>
        /\ Count(rate_limiting_counter, client_ip[h]) = 2
        /\ \A b \in ClientIps \ {client_ip[h]} : Count(rate_limiting_counter, b) = 0

\* C29: answering a request that could not be parsed leaves the counters as
\* they are; the counters change only in the write section of a rate-limit
\* check or in the resetter's clear; and the check of a request comes after
\* its parsing and before its forwarding.
C29_OnlyParsedRequestsCount ==
    [][/\ \A h \in Handlers, r \in ParseErrors :
              ReadRequestErr(h, r) => UNCHANGED limiter
       /\ rate_limiting_counter' /= rate_limiting_counter
              => (RcClear \/ \E h \in Handlers : RlIncrement(h))
       /\ \A h \in Handlers :
              /\ (pc[h] /= "rl_read" /\ pc'[h] = "rl_read") => ReadRequestOk(h)
              /\ (pc[h] /= "forward" /\ pc'[h] = "forward")
                     => pc[h] \in {"rl_read", "rl_write"}]_vars

\* Under a limit, a request was answered 400 and nothing has been counted or
\* cleared.
C29_Witness ==
    \E h \in Handlers :
        /\ max_requests_per_minute > 0
        /\ sent = <<h, BAD_REQUEST>>
        /\ pc[h] = "await_req"
        /\ DOMAIN rate_limiting_counter = {}
        /\ pc[RcTask] = "rc_tick0"
====
